---- MODULE Spec2Model ----
(***************************************************************************)
(* Model of prediction_and_shapley/1/model.py: the Triton Python backend   *)
(* model that embeds a graph with GraphSAGE, scores the embeddings with an *)
(* XGBoost booster and optionally attributes the score with Shapley value  *)
(* sampling.                                                               *)
(*                                                                         *)
(* Conventions.  Tensors are sequences (a matrix is a sequence of rows).   *)
(* Node indices in EDGE_INDEX are 1-based here (0-based in the code).      *)
(* Tensor entries are integers; the mean aggregation of SAGEConv and the   *)
(* 1/(1-p) rescaling of dropout round with integer division.  Averaged     *)
(* attributions are exact fractions [n, d] in lowest terms.                *)
(***************************************************************************)
EXTENDS Integers, Sequences, FiniteSets, TLC

\* ------------------------------------------------------------------ bounds
\* largest number of requests in one batch handed to execute
MaxBatch == 2
\* number of permutations the sampler draws (n_samples=128 in the code,
\* scaled down; the sampler's loop is the same for every count >= 1)
NSamples == 2

\* ------------------------------------------------------- generic helpers
RECURSIVE SumSeq(_)
SumSeq(s) == IF s = <<>> THEN 0 ELSE Head(s) + SumSeq(Tail(s))

RECURSIVE Gcd(_, _)
Gcd(a, b) == IF b = 0 THEN a ELSE Gcd(b, a % b)

Abs(a) == IF a < 0 THEN -a ELSE a

\* the fraction n/d (d > 0) in lowest terms
Frac(n, d) == LET g == Gcd(Abs(n), d) IN [n |-> n \div g, d |-> d \div g]

FracAdd(p, q) == Frac(p.n * q.d + q.n * p.d, p.d * q.d)

RECURSIVE FracSum(_)
FracSum(s) == IF s = <<>> THEN Frac(0, 1) ELSE FracAdd(Head(s), FracSum(Tail(s)))

Range(s) == {s[i] : i \in DOMAIN s}

\* ---------------------------------------------------- int(string_value)
\* a string_value is a sequence of one-character strings
DigitChars == {"0", "1", "2", "3", "4", "5", "6", "7", "8", "9"}

DigitVal(c) ==
    CASE c = "0" -> 0 [] c = "1" -> 1 [] c = "2" -> 2 [] c = "3" -> 3
      [] c = "4" -> 4 [] c = "5" -> 5 [] c = "6" -> 6 [] c = "7" -> 7
      [] c = "8" -> 8 [] c = "9" -> 9

RECURSIVE DigitsVal(_, _)
DigitsVal(s, acc) ==
    IF s = <<>> THEN acc ELSE DigitsVal(Tail(s), 10 * acc + DigitVal(Head(s)))

\* int(s) succeeds: an optional sign followed by at least one digit
IntParses(s) ==
    LET body == IF s # <<>> /\ Head(s) \in {"-", "+"} THEN Tail(s) ELSE s
    IN  body # <<>> /\ \A i \in DOMAIN body : body[i] \in DigitChars

IntOf(s) ==
    IF Head(s) = "-" THEN 0 - DigitsVal(Tail(s), 0)
    ELSE IF Head(s) = "+" THEN DigitsVal(Tail(s), 0)
    ELSE DigitsVal(s, 0)

\* ------------------------------------------------- the model repository
\* one SAGEConv layer: out = lin_l(mean of in-neighbours) + bias + lin_r(self)
Conv1 == [lin_l |-> << <<1, 1>> >>, bias |-> <<0>>, lin_r |-> << <<1, -1>> >>]
Conv2 == [lin_l |-> << <<2>> >>, bias |-> <<-1>>, lin_r |-> << <<1>> >>]
FcHead == [weight |-> << <<1, 1, 1>> >>, bias |-> <<0>>]

\* files next to model.py: two embedder state dicts and one booster
StateDictFiles == {"sage1.pt", "sage2.pt"}

StateDictOf(f) ==
    IF f = "sage1.pt" THEN [convs |-> <<Conv1>>, fc |-> FcHead]
    ELSE [convs |-> <<Conv1, Conv2>>, fc |-> FcHead]

BoosterFiles == {"xgb.json"}

\* a booster of three stumps over the 3-wide embedding row
BoosterOf(f) ==
    [num_features |-> 3,
     trees |-> << [feat |-> 3, thr |-> 1, left |-> 0, right |-> 4],
                  [feat |-> 1, thr |-> 1, left |-> 0, right |-> 2],
                  [feat |-> 2, thr |-> 2, left |-> 0, right |-> 1] >>,
     params |-> {}]

\* --------------------------------------------- args["model_config"]
Missing == [present |-> FALSE, string_value |-> <<>>]
Str(s) == [present |-> TRUE, string_value |-> s]

ParameterChoices ==
    [in_channels : {Missing, Str(<<"a">>), Str(<<"2">>)},
     hidden_channels : {Missing, Str(<<"1", ".", "0">>), Str(<<"1">>)},
     out_channels : {Missing, Str(<<"1">>)},
     n_layers : {Missing, Str(<<>>), Str(<<"0">>), Str(<<"1">>), Str(<<"2">>)},
     embedding_generator_model_state_dict :
         {Missing, Str("missing.pt"), Str("sage1.pt"), Str("sage2.pt")},
     embeddings_based_xgboost_model :
         {Missing, Str("missing.json"), Str("xgb.json")}]

\* data_type of the FEATURE_MASK input and of the two outputs
IOConfig ==
    [FEATURE_MASK |-> "TYPE_INT32", PREDICTION |-> "TYPE_FP32",
     SHAP_VALUES |-> "TYPE_FP32"]

triton_string_to_numpy(t) ==
    CASE t = "TYPE_INT32" -> "int32" [] t = "TYPE_FP32" -> "float32"

\* ------------------------------------------------------------ GraphSAGE
\* GraphSAGE.__init__: the layers it builds, by [in, out] width
GraphSAGE_init(in_channels, hidden_channels, out_channels, n_layers) ==
    [conv_shapes |->
        <<[in |-> in_channels, out |-> hidden_channels]>> \o
        [i \in 1..(n_layers - 1) |-> [in |-> hidden_channels, out |-> hidden_channels]],
     fc_shape |-> [in |-> hidden_channels + in_channels, out |-> out_channels],
     dropout_prob_num |-> 1, dropout_prob_den |-> 4,
     training |-> TRUE]

ConvShape(c) == [in |-> Len(c.lin_l[1]), out |-> Len(c.lin_l)]

\* load_state_dict(strict): the keys and shapes of the file match the module
load_state_dict_ok(module, sd) ==
    /\ Len(sd.convs) = Len(module.conv_shapes)
    /\ \A i \in DOMAIN sd.convs : ConvShape(sd.convs[i]) = module.conv_shapes[i]
    /\ [in |-> Len(sd.fc.weight[1]), out |-> Len(sd.fc.weight)] = module.fc_shape

\* the weights of a freshly constructed module, before any state dict is loaded
Untrained == [convs |-> <<>>, fc |-> [weight |-> <<>>, bias |-> <<>>]]

\* eval() forgotten: the module stays in training mode
eval_skipped(m) == m

\* nn.Module.eval(): leave training mode
eval(m) == [m EXCEPT !.training = FALSE]

\* SAGEConv with mean aggregation: row i of the output.  An edge is
\* <<source, target>>; a node without in-edges aggregates the zero vector,
\* a repeated edge counts once per repetition.
Dot(w, v) == SumSeq([j \in DOMAIN w |-> w[j] * v[j]])

InEdges(edge_index, i) == {k \in DOMAIN edge_index : edge_index[k][2] = i}

MeanAggr(h, edge_index, i) ==
    LET deg == Cardinality(InEdges(edge_index, i))
    IN  [j \in DOMAIN h[i] |->
            IF deg = 0 THEN 0
            ELSE SumSeq([k \in DOMAIN edge_index |->
                            IF edge_index[k][2] = i THEN h[edge_index[k][1]][j] ELSE 0])
                 \div deg]

SAGEConv(c, h, edge_index) ==
    [i \in DOMAIN h |->
        [k \in DOMAIN c.lin_l |->
            c.bias[k] + Dot(c.lin_l[k], MeanAggr(h, edge_index, i)) + Dot(c.lin_r[k], h[i])]]

relu(h) == [i \in DOMAIN h |-> [k \in DOMAIN h[i] |-> IF h[i][k] < 0 THEN 0 ELSE h[i][k]]]

\* F.dropout(h, p, training): in training mode the entries of layer l named
\* in drop are zeroed and the others are scaled by 1/(1-p); otherwise h is
\* returned as it is
dropout(h, m, drop, l) ==
    IF m.training
    THEN [i \in DOMAIN h |-> [k \in DOMAIN h[i] |->
            IF <<l, i, k>> \in drop THEN 0
            ELSE (h[i][k] * m.dropout_prob_den) \div (m.dropout_prob_den - m.dropout_prob_num)]]
    ELSE h

\* the entries dropout may zero in one forward pass: any of them in
\* training mode, none in evaluation mode
DropChoices(m, x) ==
    IF m.training
    THEN SUBSET {<<l, i, k>> \in (DOMAIN m.convs) \X (DOMAIN x) \X (1..Len(m.convs[1].lin_l)) : TRUE}
    ELSE {{}}

RECURSIVE ConvLoop(_, _, _, _, _)
ConvLoop(m, embeddings, edge_index, drop, l) ==
    IF l > Len(m.convs) THEN embeddings
    ELSE ConvLoop(m,
                  dropout(relu(SAGEConv(m.convs[l], embeddings, edge_index)), m, drop, l),
                  edge_index, drop, l + 1)

\* the matrix products of forward are defined: every row of x is as wide
\* as the first layer's input and every edge names two rows of x
forward_ok(m, x, edge_index) ==
    /\ m.convs # <<>>
    /\ \A i \in DOMAIN x : Len(x[i]) = Len(m.convs[1].lin_l[1])
    /\ \A k \in DOMAIN edge_index :
          edge_index[k][1] \in DOMAIN x /\ edge_index[k][2] \in DOMAIN x

\* GraphSAGE.forward
forward(m, x, edge_index, return_hidden, drop) ==
    LET embeddings == ConvLoop(m, x, edge_index, drop, 1)
        cat == [i \in DOMAIN x |-> x[i] \o embeddings[i]]
    IN  IF return_hidden THEN cat
        ELSE [i \in DOMAIN x |->
                [k \in DOMAIN m.fc.weight |-> m.fc.bias[k] + Dot(m.fc.weight[k], cat[i])]]

\* Booster.predict(DMatrix(embeddings)): one score per row, the sum of the
\* leaves the row falls into
predict_ok(bst, embeddings) ==
    \A i \in DOMAIN embeddings : Len(embeddings[i]) = bst.num_features

predict(bst, embeddings) ==
    [i \in DOMAIN embeddings |->
        SumSeq([t \in DOMAIN bst.trees |->
            IF embeddings[i][bst.trees[t].feat] < bst.trees[t].thr
            THEN bst.trees[t].left ELSE bst.trees[t].right])]

\* --------------------------------------------------------------- state
VARIABLES
    parameters,   \* model_config["parameters"] handed to initialize
    worker,       \* "loaded", "ready" (initialize returned) or "failed" (it raised)
    self,         \* the attributes of the TritonPythonModel instance
    requests,     \* the batch execute is working on
    idx,          \* number of requests of the batch already handled
    pc,           \* position inside execute; "idle" outside it, "done" when it ended
    locals,       \* execute's local variables
    sampler,      \* the ShapleyValueSampling object of the current request
    responses,    \* execute's responses list
    outcome,      \* how the last execute call ended, and what it returned
    stages,       \* pipeline stages the current request went through
    calls,        \* number of embed-then-score evaluations for the current request
    evals         \* their <<node features, scores>> pairs

vars == <<parameters, worker, self, requests, idx, pc, locals, sampler,
          responses, outcome, stages, calls, evals>>

\* --------------------------------------------------- initialize(args)
IntOK(e) == e.present /\ IntParses(e.string_value)

\* number of statements of initialize that complete before one raises:
\* the four int(...) lookups, the two file-name lookups, the construction,
\* torch.load, load_state_dict and eval, Booster.load_model and set_param
Passed(p) ==
    IF ~IntOK(p.in_channels) THEN 0
    ELSE IF ~IntOK(p.hidden_channels) THEN 1
    ELSE IF ~IntOK(p.out_channels) THEN 2
    ELSE IF ~IntOK(p.n_layers) THEN 3
    ELSE IF ~p.embedding_generator_model_state_dict.present THEN 4
    ELSE IF ~p.embeddings_based_xgboost_model.present THEN 5
    ELSE IF p.embedding_generator_model_state_dict.string_value \notin StateDictFiles THEN 6
    ELSE IF ~load_state_dict_ok(
                GraphSAGE_init(IntOf(p.in_channels.string_value),
                               IntOf(p.hidden_channels.string_value),
                               IntOf(p.out_channels.string_value),
                               IntOf(p.n_layers.string_value)),
                StateDictOf(p.embedding_generator_model_state_dict.string_value)) THEN 7
    ELSE IF p.embeddings_based_xgboost_model.string_value \notin BoosterFiles THEN 8
    ELSE 9

\* errors raised after the hyperparameters are read are swallowed
InitializeOK_swallowed(p) == Passed(p) >= 4

InitializeOK(p) == Passed(p) = 9

NoSelf ==
    [attrs |-> {}, in_channels |-> 0, hidden_channels |-> 0, out_channels |-> 0,
     n_layers |-> 0, embedder_state_dict_filename |-> "", xgb_model_filename |-> "",
     feature_mask_dtype |-> "", prediction_dtype |-> "", shap_dtype |-> "",
     model |-> [convs |-> <<>>, fc |-> Untrained.fc, training |-> TRUE,
                dropout_prob_num |-> 1, dropout_prob_den |-> 4],
     bst |-> [num_features |-> 0, trees |-> <<>>, params |-> {}]]

\* the attributes initialize has assigned when it returns or raises
SelfAfterInitialize(p) ==
    LET n == Passed(p)
        module == GraphSAGE_init(IntOf(p.in_channels.string_value),
                                 IntOf(p.hidden_channels.string_value),
                                 IntOf(p.out_channels.string_value),
                                 IntOf(p.n_layers.string_value))
        constructed == [convs |-> Untrained.convs, fc |-> Untrained.fc,
                        training |-> module.training,
                        dropout_prob_num |-> module.dropout_prob_num,
                        dropout_prob_den |-> module.dropout_prob_den]
        sd == StateDictOf(p.embedding_generator_model_state_dict.string_value)
        loaded == [constructed EXCEPT !.convs = sd.convs, !.fc = sd.fc]
        booster == BoosterOf(p.embeddings_based_xgboost_model.string_value)
    IN  [attrs |->
            (IF n >= 1 THEN {"in_channels"} ELSE {}) \cup
            (IF n >= 2 THEN {"hidden_channels"} ELSE {}) \cup
            (IF n >= 3 THEN {"out_channels"} ELSE {}) \cup
            (IF n >= 4 THEN {"n_layers"} ELSE {}) \cup
            (IF n >= 5 THEN {"embedder_state_dict_filename"} ELSE {}) \cup
            (IF n >= 6 THEN {"xgb_model_filename", "feature_mask_dtype",
                             "prediction_dtype", "shap_dtype", "device", "model"}
                       ELSE {}) \cup
            (IF n >= 8 THEN {"bst"} ELSE {}),
         in_channels |-> IF n >= 1 THEN IntOf(p.in_channels.string_value) ELSE 0,
         hidden_channels |-> IF n >= 2 THEN IntOf(p.hidden_channels.string_value) ELSE 0,
         out_channels |-> IF n >= 3 THEN IntOf(p.out_channels.string_value) ELSE 0,
         n_layers |-> IF n >= 4 THEN IntOf(p.n_layers.string_value) ELSE 0,
         embedder_state_dict_filename |->
            IF n >= 5 THEN p.embedding_generator_model_state_dict.string_value ELSE "",
         xgb_model_filename |->
            IF n >= 6 THEN p.embeddings_based_xgboost_model.string_value ELSE "",
         feature_mask_dtype |->
            IF n >= 6 THEN triton_string_to_numpy(IOConfig.FEATURE_MASK) ELSE "",
         prediction_dtype |->
            IF n >= 6 THEN triton_string_to_numpy(IOConfig.PREDICTION) ELSE "",
         shap_dtype |->
            IF n >= 6 THEN triton_string_to_numpy(IOConfig.SHAP_VALUES) ELSE "",
         model |-> IF n >= 8 THEN eval(loaded)
                   ELSE IF n >= 6 THEN constructed
                   ELSE NoSelf.model,
         bst |-> IF n >= 9
                 THEN [booster EXCEPT !.params = {<<"tree_method", "hist">>, <<"device", "cuda">>}]
                 ELSE NoSelf.bst]

\* ----------------------------------------------------------- requests
\* one isolated node
GraphA == [x |-> << <<1, 2>> >>, edges |-> <<>>]
\* two nodes: node 1 has a self-loop and a repeated in-edge from node 2,
\* node 2 has no in-edge
GraphB == [x |-> << <<2, 1>>, <<0, 3>> >>,
           edges |-> << <<2, 1>>, <<2, 1>>, <<1, 1>> >>]

Request(g, c, fm) ==
    [NODE_FEATURES |-> g.x, EDGE_INDEX |-> g.edges, COMPUTE_SHAP |-> <<c>>,
     FEATURE_MASK |-> fm]

\* with attribution: a mask of one group of two features (on both graphs),
\* of one group per feature, and of group ids that are not contiguous;
\* without attribution the mask is never read
ValidRequests ==
    {Request(GraphA, TRUE, <<0, 0>>), Request(GraphA, TRUE, <<5, 2>>),
     Request(GraphB, TRUE, <<0, 0>>), Request(GraphB, TRUE, <<0, 1>>),
     Request(GraphA, FALSE, <<0, 0>>), Request(GraphB, FALSE, <<0, 1>>)}

\* a feature row of the wrong width, and a mask of the wrong length
MalformedRequests ==
    {Request([x |-> << <<1>> >>, edges |-> <<>>], FALSE, <<0, 1>>),
     Request(GraphA, TRUE, <<0, 1, 2>>)}

Requests == ValidRequests \cup MalformedRequests

Batches == UNION {[1..n -> Requests] : n \in 1..MaxBatch}

\* ------------------------------------------------- execute: the pieces
\* a local variable that has not been assigned yet
Unbound == <<>>

NoLocals ==
    [node_features_numpy |-> Unbound, edge_index_numpy |-> Unbound,
     compute_shap_numpy |-> Unbound, feature_mask_numpy |-> Unbound,
     embeddings |-> Unbound, y_pred_prob |-> Unbound, attributions |-> Unbound]

\* the four get_input_tensor_by_name(...).as_numpy() reads
ReadInputs(l, request) ==
    [l EXCEPT !.node_features_numpy = request.NODE_FEATURES,
              !.edge_index_numpy = request.EDGE_INDEX,
              !.compute_shap_numpy = request.COMPUTE_SHAP,
              !.feature_mask_numpy = request.FEATURE_MASK]

\* embeddings = self.model(node_features, edge_index, True)
Embed(me, l, drop) ==
    forward(me.model, l.node_features_numpy, l.edge_index_numpy, TRUE, drop)

\* y_pred_prob = self.bst.predict(DMatrix(embeddings))[:, None]
Score(me, embeddings) ==
    LET p == predict(me.bst, embeddings) IN [i \in DOMAIN p |-> <<p[i]>>]

\* the else branch is missing: a request without attribution goes straight
\* to the response
AfterScore_no_else(l) == IF l.compute_shap_numpy[1] THEN "attribute" ELSE "respond"

\* the branch is taken the wrong way round
AfterScore_inverted(l) == IF l.compute_shap_numpy[1] THEN "skip" ELSE "attribute"

\* if compute_shap_numpy[0]: ... else: ...
AfterScore(l) == IF l.compute_shap_numpy[1] THEN "attribute" ELSE "skip"

\* the closure drops the request's edges
forward_function_no_edges(me, l, node_x_tensor, drop) ==
    predict(me.bst, forward(me.model, node_x_tensor, <<>>, TRUE, drop))

\* the closure handed to the sampler: embed with this request's edges, score
forward_function(me, l, node_x_tensor, drop) ==
    predict(me.bst, forward(me.model, node_x_tensor, l.edge_index_numpy, TRUE, drop))

\* x_input = torch.as_tensor(node_features_numpy).to(torch.float32)
XInput(l) == l.node_features_numpy

\* baseline = torch.zeros_like(x_input)
Baseline(x_input) == [i \in DOMAIN x_input |-> [j \in DOMAIN x_input[i] |-> 0]]

\* the request's mask is ignored: every feature is its own group
FeatureMaskArg_per_feature(l) == [j \in DOMAIN l.feature_mask_numpy |-> j]

\* feature_mask=torch.tensor(feature_mask_numpy).to(torch.int32)
FeatureMaskArg(l) == l.feature_mask_numpy

\* the default is only assigned when nothing was assigned before
SkippedAttributions_stale(me, l) ==
    IF l.attributions # <<>> THEN l.attributions
    ELSE << [j \in 1..me.in_channels |-> Frac(0, 1)] >>

\* attributions = torch.zeros((1, self.in_channels))
SkippedAttributions(me, l) == << [j \in 1..me.in_channels |-> Frac(0, 1)] >>

\* the response carries the prediction only
InferenceResponse_prediction_only(me, l) ==
    [output_tensors |->
        << [name |-> "PREDICTION", dtype |-> me.prediction_dtype, data |-> l.y_pred_prob] >>]

\* pb_utils.InferenceResponse(output_tensors=[PREDICTION, SHAP_VALUES])
InferenceResponse(me, l) ==
    [output_tensors |->
        << [name |-> "PREDICTION", dtype |-> me.prediction_dtype, data |-> l.y_pred_prob],
           [name |-> "SHAP_VALUES", dtype |-> me.shap_dtype, data |-> l.attributions] >>]

\* ------------------------------------- ShapleyValueSampling.attribute
\* the coalition groups of a mask
GroupsOf(mask) == Range(mask)

\* the orders in which the groups can be added
GroupOrders(S) ==
    {p \in [1..Cardinality(S) -> S] : \A i, j \in DOMAIN p : i # j => p[i] # p[j]}

\* the mask covers the features of x, and baseline and x have one shape
attribute_ok(x, baseline, mask, n_samples) ==
    /\ n_samples >= 1
    /\ DOMAIN baseline = DOMAIN x
    /\ \A i \in DOMAIN x : Len(baseline[i]) = Len(x[i]) /\ Len(mask) = Len(x[i])

\* replace, in the running matrix, the features of group g by x's values
AddGroup(running, x, mask, g) ==
    [i \in DOMAIN running |-> [j \in DOMAIN running[i] |->
        IF mask[j] = g THEN x[i][j] ELSE running[i][j]]]

\* add one marginal contribution (per row) to group g's running total
Accumulate(total, g, ev, prev) ==
    [total EXCEPT ![g] = [i \in DOMAIN ev |-> total[g][i] + ev[i] - prev[i]]]

\* the averaged contribution of its group, written to every feature
AverageToFeatures(total, x, mask, n_samples) ==
    [i \in DOMAIN x |-> [j \in DOMAIN x[i] |-> Frac(total[mask[j]][i], n_samples)]]

NoSampler ==
    [constructed |-> FALSE, invoked |-> FALSE, x_input |-> <<>>, baseline |-> <<>>,
     mask |-> <<>>, perm |-> <<>>, pos |-> 0, sample |-> 0, running |-> <<>>,
     base_eval |-> <<>>, prev |-> <<>>, total |-> <<>>]

\* ---------------------------------------------------------------- Init
Init ==
    /\ parameters \in ParameterChoices
    /\ worker = "loaded"
    /\ self = NoSelf
    /\ requests = <<>>
    /\ idx = 0
    /\ pc = "idle"
    /\ locals = NoLocals
    /\ sampler = NoSampler
    /\ responses = <<>>
    /\ outcome = [kind |-> "none", responses |-> <<>>]
    /\ stages = <<>>
    /\ calls = 0
    /\ evals = {}

\* ------------------------------------------------------------- actions
\* TritonPythonModel.initialize: returns, or raises at its first failing
\* statement
Initialize ==
    /\ worker = "loaded"
    /\ self' = SelfAfterInitialize(parameters)
    /\ worker' = IF InitializeOK(parameters) THEN "ready" ELSE "failed"
    /\ UNCHANGED <<parameters, requests, idx, pc, locals, sampler, responses,
                   outcome, stages, calls, evals>>

\* an exception leaves execute: the responses list is lost with the frame
Raise ==
    /\ pc' = "done"
    /\ outcome' = [kind |-> "raised", responses |-> <<>>]
    /\ responses' = <<>>
    /\ UNCHANGED <<parameters, worker, self, requests, idx, locals, sampler,
                   stages, calls, evals>>

\* the server calls execute(requests) on an initialized model
ExecuteStart ==
    /\ worker = "ready"
    /\ pc = "idle"
    /\ \E batch \in Batches : requests' = batch
    /\ idx' = 0
    /\ responses' = <<>>
    /\ locals' = NoLocals
    /\ sampler' = NoSampler
    /\ outcome' = [kind |-> "none", responses |-> <<>>]
    /\ stages' = <<>>
    /\ calls' = 0
    /\ evals' = {}
    /\ pc' = "loop"
    /\ UNCHANGED <<parameters, worker, self>>

\* for request in requests: read the four input tensors
Receive ==
    /\ pc = "loop"
    /\ idx < Len(requests)
    /\ locals' = ReadInputs(locals, requests[idx + 1])
    /\ sampler' = NoSampler
    /\ stages' = <<"RECEIVED">>
    /\ calls' = 0
    /\ evals' = {}
    /\ pc' = "embed"
    /\ UNCHANGED <<parameters, worker, self, requests, idx, responses, outcome>>

\* return responses
Return ==
    /\ pc = "loop"
    /\ idx = Len(requests)
    /\ outcome' = [kind |-> "returned", responses |-> responses]
    /\ pc' = "done"
    /\ UNCHANGED <<parameters, worker, self, requests, idx, locals, sampler,
                   responses, stages, calls, evals>>

\* embeddings = self.model(...)
EmbedStep ==
    /\ pc = "embed"
    /\ IF forward_ok(self.model, locals.node_features_numpy, locals.edge_index_numpy)
       THEN /\ \E drop \in DropChoices(self.model, locals.node_features_numpy) :
                  locals' = [locals EXCEPT !.embeddings = Embed(self, locals, drop)]
            /\ stages' = Append(stages, "EMBEDDED")
            /\ pc' = "score"
            /\ UNCHANGED <<parameters, worker, self, requests, idx, sampler,
                           responses, outcome, calls, evals>>
       ELSE Raise

\* y_pred_prob = self.bst.predict(...)[:, None], then the branch on COMPUTE_SHAP
ScoreStep ==
    /\ pc = "score"
    /\ IF locals.embeddings # Unbound /\ predict_ok(self.bst, locals.embeddings)
       THEN /\ locals' = [locals EXCEPT !.y_pred_prob = Score(self, locals.embeddings)]
            /\ stages' = Append(stages, "SCORED")
            /\ calls' = calls + 1
            /\ evals' = evals \cup
                  {<<locals.node_features_numpy, predict(self.bst, locals.embeddings)>>}
            /\ pc' = AfterScore(locals)
            /\ UNCHANGED <<parameters, worker, self, requests, idx, sampler,
                           responses, outcome>>
       ELSE Raise

\* ShapleyValueSampling(forward_function), x_input, baseline, and the start
\* of attribute(): the argument checks and the score of the baseline
AttributeBegin ==
    /\ pc = "attribute"
    /\ LET x == XInput(locals)
           b == Baseline(x)
           fm == FeatureMaskArg(locals)
       IN  IF attribute_ok(x, b, fm, NSamples)
           THEN \E drop \in DropChoices(self.model, x) :
                  LET ev == forward_function(self, locals, b, drop)
                  IN  /\ sampler' = [constructed |-> TRUE, invoked |-> TRUE,
                                     x_input |-> x, baseline |-> b, mask |-> fm,
                                     perm |-> <<>>, pos |-> 0, sample |-> 0,
                                     running |-> b, base_eval |-> ev, prev |-> ev,
                                     total |-> [g \in GroupsOf(fm) |-> [i \in DOMAIN x |-> 0]]]
                      /\ calls' = calls + 1
                      /\ evals' = evals \cup {<<b, ev>>}
                      /\ pc' = "draw"
                      /\ UNCHANGED <<parameters, worker, self, requests, idx, locals,
                                     responses, outcome, stages>>
           ELSE /\ sampler' = [NoSampler EXCEPT !.constructed = TRUE, !.invoked = TRUE]
                /\ pc' = "done"
                /\ outcome' = [kind |-> "raised", responses |-> <<>>]
                /\ responses' = <<>>
                /\ UNCHANGED <<parameters, worker, self, requests, idx, locals,
                               stages, calls, evals>>

\* one sample: draw a random order of the groups, restart from the baseline
DrawPermutation ==
    /\ pc = "draw"
    /\ \E perm \in GroupOrders(GroupsOf(sampler.mask)) :
          sampler' = [sampler EXCEPT !.perm = perm, !.pos = 1,
                                     !.running = sampler.baseline,
                                     !.prev = sampler.base_eval]
    /\ pc' = "perturb"
    /\ UNCHANGED <<parameters, worker, self, requests, idx, locals, responses,
                   outcome, stages, calls, evals>>

\* add the next group of the order, score, record the marginal contribution
PerturbStep ==
    /\ pc = "perturb"
    /\ LET g == sampler.perm[sampler.pos]
           running == AddGroup(sampler.running, sampler.x_input, sampler.mask, g)
           last == sampler.pos = Len(sampler.perm)
       IN  \E drop \in DropChoices(self.model, running) :
             LET ev == forward_function(self, locals, running, drop)
             IN  /\ sampler' = [sampler EXCEPT
                                  !.running = running,
                                  !.prev = ev,
                                  !.total = Accumulate(sampler.total, g, ev, sampler.prev),
                                  !.pos = IF last THEN 0 ELSE sampler.pos + 1,
                                  !.sample = IF last THEN sampler.sample + 1 ELSE sampler.sample]
                 /\ calls' = calls + 1
                 /\ evals' = evals \cup {<<running, ev>>}
                 /\ pc' = IF ~last THEN "perturb"
                          ELSE IF sampler.sample + 1 < NSamples THEN "draw"
                          ELSE "average"
    /\ UNCHANGED <<parameters, worker, self, requests, idx, locals, responses,
                   outcome, stages>>

\* attribute() returns the averaged totals
AttributeEnd ==
    /\ pc = "average"
    /\ locals' = [locals EXCEPT !.attributions =
                    AverageToFeatures(sampler.total, sampler.x_input, sampler.mask, NSamples)]
    /\ stages' = Append(stages, "ATTRIBUTED")
    /\ pc' = "respond"
    /\ UNCHANGED <<parameters, worker, self, requests, idx, sampler, responses,
                   outcome, calls, evals>>

\* the else branch: the default attribution
Skip ==
    /\ pc = "skip"
    /\ locals' = [locals EXCEPT !.attributions = SkippedAttributions(self, locals)]
    /\ stages' = Append(stages, "SKIPPED")
    /\ pc' = "respond"
    /\ UNCHANGED <<parameters, worker, self, requests, idx, sampler, responses,
                   outcome, calls, evals>>

\* build the response and append it; a local that was never assigned
\* raises NameError
Respond ==
    /\ pc = "respond"
    /\ IF locals.y_pred_prob # Unbound /\ locals.attributions # Unbound
       THEN /\ responses' = Append(responses, InferenceResponse(self, locals))
            /\ idx' = idx + 1
            /\ stages' = Append(stages, "RESPONDED")
            /\ pc' = "loop"
            /\ UNCHANGED <<parameters, worker, self, requests, locals, sampler,
                           outcome, calls, evals>>
       ELSE Raise

\* the server takes what execute returned or raised; the frame of the call
\* (its arguments and locals) is gone
Deliver ==
    /\ pc = "done"
    /\ pc' = "idle"
    /\ requests' = <<>>
    /\ idx' = 0
    /\ responses' = <<>>
    /\ locals' = NoLocals
    /\ sampler' = NoSampler
    /\ outcome' = [kind |-> "none", responses |-> <<>>]
    /\ stages' = <<>>
    /\ calls' = 0
    /\ evals' = {}
    /\ UNCHANGED <<parameters, worker, self>>

Next ==
    \/ Initialize
    \/ ExecuteStart
    \/ Receive
    \/ Return
    \/ EmbedStep
    \/ ScoreStep
    \/ AttributeBegin
    \/ DrawPermutation
    \/ PerturbStep
    \/ AttributeEnd
    \/ Skip
    \/ Respond
    \/ Deliver

Spec == Init /\ [][Next]_vars

\* ------------------------------------------------------------ properties
IsPrefix(s, t) == Len(s) <= Len(t) /\ \A i \in DOMAIN s : s[i] = t[i]

LegalRuns ==
    {<<"RECEIVED", "EMBEDDED", "SCORED", a, "RESPONDED">> : a \in {"ATTRIBUTED", "SKIPPED"}}

Reached(stage) == stage \in Range(stages)

\* the flag of the request being handled
Flag == locals.compute_shap_numpy[1]

Shape(d) == <<Len(d), Len(d[1])>>

AllZero(d) == \A i \in DOMAIN d : \A j \in DOMAIN d[i] : d[i][j] = Frac(0, 1)

PredictionOf(r) == r.output_tensors[1].data
ShapOf(r) == r.output_tensors[2].data

\* the score the startup state assigns to a feature matrix over given edges
ScoreOf(x, edge_index) == predict(self.bst, forward(self.model, x, edge_index, TRUE, {}))

ZeroLike(x) == [i \in DOMAIN x |-> [j \in DOMAIN x[i] |-> 0]]

RECURSIVE GroupSum(_, _, _)
GroupSum(groups, row, mask) ==
    IF groups = {} THEN Frac(0, 1)
    ELSE LET g == CHOOSE h \in groups : TRUE
             j == CHOOSE k \in DOMAIN mask : mask[k] = g
         IN  FracAdd(row[j], GroupSum(groups \ {g}, row, mask))

\* the request would be served if it were alone in its batch
Servable(r) ==
    /\ forward_ok(self.model, r.NODE_FEATURES, r.EDGE_INDEX)
    /\ r.COMPUTE_SHAP[1] =>
          attribute_ok(r.NODE_FEATURES, ZeroLike(r.NODE_FEATURES), r.FEATURE_MASK, NSamples)

\* C1: the stages of every request are a prefix of RECEIVED, EMBEDDED,
\* SCORED, one of ATTRIBUTED or SKIPPED, RESPONDED, in this order, whatever
\* the flag is.
C1_StageOrder == \E run \in LegalRuns : IsPrefix(stages, run)

C1_Witness ==
    stages = <<"RECEIVED", "EMBEDDED", "SCORED", "ATTRIBUTED", "RESPONDED">>

\* C2: of two requests of a batch that differ only in COMPUTE_SHAP, the
\* one without attribution gets an all-zero SHAP_VALUES of the same shape as
\* the one with attribution.
C2_SkipSameShape ==
    \A i, j \in DOMAIN responses :
        ( /\ requests[j].COMPUTE_SHAP = <<TRUE>>
          /\ requests[i] = [requests[j] EXCEPT !.COMPUTE_SHAP = <<FALSE>>] )
        => /\ AllZero(ShapOf(responses[i]))
           /\ Shape(ShapOf(responses[i])) = Shape(ShapOf(responses[j]))

\* C3: when execute has ended, every request of the batch that is servable
\* on its own has its response, also when another request of the batch failed.
C3_FailureIsolated ==
    pc = "done"
    => \A i \in DOMAIN requests :
          Servable(requests[i]) => i \in DOMAIN outcome.responses

\* C4: the sampler is constructed and invoked only for a request whose flag
\* is true, and for every such request; a request whose flag is false is
\* scored exactly once and gets one all-zero row of in_channels entries.
C4_SamplerIffFlag ==
    /\ (sampler.constructed \/ sampler.invoked) => Flag
    /\ (Reached("SKIPPED") \/ Reached("ATTRIBUTED") \/ Reached("RESPONDED")) =>
          IF Flag
          THEN sampler.invoked /\ Reached("ATTRIBUTED")
          ELSE /\ calls = 1
               /\ ~sampler.constructed
               /\ Shape(locals.attributions) = <<1, self.in_channels>>
               /\ AllZero(locals.attributions)

C4_Witness == Reached("RESPONDED") /\ ~Flag /\ calls = 1

\* C5 as stated: the attributions of a row, summed over all features, equal
\* the row's score minus its score on the zero baseline.
C5_AdditiveOverFeatures ==
    (Reached("ATTRIBUTED") /\ Len(locals.feature_mask_numpy) = self.in_channels)
    => \A i \in DOMAIN locals.attributions :
          FracSum(locals.attributions[i]) =
            Frac(locals.y_pred_prob[i][1]
                   - ScoreOf(ZeroLike(locals.node_features_numpy), locals.edge_index_numpy)[i], 1)

\* C5 amended: the attributions of a row, summed once per coalition group,
\* equal the row's score minus its score on the zero baseline.
C5_AdditiveOverGroups ==
    (Reached("ATTRIBUTED") /\ Len(locals.feature_mask_numpy) = self.in_channels)
    => \A i \in DOMAIN locals.attributions :
          GroupSum(GroupsOf(locals.feature_mask_numpy), locals.attributions[i],
                   locals.feature_mask_numpy) =
            Frac(locals.y_pred_prob[i][1]
                   - ScoreOf(ZeroLike(locals.node_features_numpy), locals.edge_index_numpy)[i], 1)

\* a group of two features with a non-zero contribution was attributed
C5_Witness ==
    /\ Reached("ATTRIBUTED")
    /\ locals.feature_mask_numpy = <<0, 0>>
    /\ \E i \in DOMAIN locals.attributions : locals.attributions[i][1] # Frac(0, 1)

BadEntry(p) ==
    \/ ~IntOK(p.in_channels) \/ ~IntOK(p.hidden_channels)
    \/ ~IntOK(p.out_channels) \/ ~IntOK(p.n_layers)
    \/ ~p.embedding_generator_model_state_dict.present
    \/ ~p.embeddings_based_xgboost_model.present

C8_BothTensors ==
    /\ \A r \in Range(responses) \cup Range(outcome.responses) :
          /\ [k \in DOMAIN r.output_tensors |-> r.output_tensors[k].name] =
                <<"PREDICTION", "SHAP_VALUES">>
          /\ \A k \in DOMAIN r.output_tensors : r.output_tensors[k].data # <<>>
    /\ outcome.kind = "returned" =>
          /\ Len(outcome.responses) = Len(requests)
          /\ \A i \in DOMAIN requests :
                Len(PredictionOf(outcome.responses[i])) = Len(requests[i].NODE_FEATURES)
    /\ outcome.kind = "raised" => outcome.responses = <<>>

C8_Witness ==
    /\ outcome.kind = "returned"
    /\ Len(requests) >= 2
    /\ Len(requests[1].NODE_FEATURES) # Len(requests[2].NODE_FEATURES)

\* C9: a ready worker's embedder is not in training mode, and the scores
\* evaluated for one request are a function of the node features: the same
\* features never get two different scores.
C9_Deterministic ==
    /\ worker = "ready" => ~self.model.training
    /\ \A a, b \in evals : a[1] = b[1] => a[2] = b[2]

\* the request's own features were scored by execute and again by every
\* sampled order
C9_Witness ==
    /\ Reached("ATTRIBUTED")
    /\ calls >= 2 + NSamples
    /\ Cardinality(evals) < calls

\* C10: with a mask of length in_channels, every row of the attribution has
\* in_channels entries, every feature is in exactly one group, and features
\* of one group carry the same value.
C10_GroupsReplicated ==
    (Reached("ATTRIBUTED") /\ Len(locals.feature_mask_numpy) = self.in_channels)
    => /\ Len(locals.attributions) = Len(locals.node_features_numpy)
       /\ \A i \in DOMAIN locals.attributions :
             /\ Len(locals.attributions[i]) = self.in_channels
             /\ \A j, k \in DOMAIN locals.attributions[i] :
                   locals.feature_mask_numpy[j] = locals.feature_mask_numpy[k]
                   => locals.attributions[i][j] = locals.attributions[i][k]
       /\ \A j \in 1..self.in_channels :
             Cardinality({g \in DOMAIN sampler.total : locals.feature_mask_numpy[j] = g}) = 1

\* two features of one group got the same non-zero value, and features of
\* different, non-contiguous groups were attributed too
C10_Witness ==
    /\ Reached("ATTRIBUTED")
    /\ locals.feature_mask_numpy = <<0, 0>>
    /\ locals.attributions[1][1] = locals.attributions[1][2]
    /\ locals.attributions[1][1] # Frac(0, 1)

====
